---- MODULE Spec2Model ----
(***************************************************************************)
(* Model of generate_plan (src/Study_planner_demo.py): the scoring loop,  *)
(* the sort, the expansion of time blocks into one-hour chunks and the    *)
(* greedy allocation loop, together with the helper functions they call.  *)
(*                                                                         *)
(* Representation of the Python values:                                    *)
(*   - a difficulty string is a sequence of one-character strings, so     *)
(*     that lower() and strip() are computed and not assumed;             *)
(*   - an "HH:MM" string is the pair <<hh, mm>>; strptime turns it into   *)
(*     minutes since 1900-01-01 00:00 and strftime turns a datetime back  *)
(*     into a pair, dropping the day;                                      *)
(*   - a due_date string is [day, clock]: the ordinal of its calendar day *)
(*     and its time-of-day part (-1 when the string has none);            *)
(*   - scheduled_date is never parsed by the code and stays a string.     *)
(***************************************************************************)
EXTENDS Integers, Sequences, FiniteSets, TLC

VARIABLES
    today,                  \* line 135
    assignments,            \* req.assignments
    calendar_availability,  \* req.calendar_availability
    pc,                     \* position inside generate_plan
    cursor,                 \* index of the current for-loop (lines 140, 159, 173)
    scored,                 \* line 137
    chunks,                 \* line 157
    sessions,               \* line 169
    total_hours,            \* line 170
    hours_left,             \* line 174
    response                \* lines 203-209

vars == <<today, assignments, calendar_availability, pc, cursor, scored,
          chunks, sessions, total_hours, hours_left, response>>

----------------------------------------------------------------------------
(* Bounds of the model *)

MaxAssignments == 3
MaxBlocks == 2
MaxHours == 2
MaxChunkAssignments == 2
MaxChunkBlocks == 2
MaxPrioAssignments == 2
MaxPrioHours == 2
MaxLabelAssignments == 1

----------------------------------------------------------------------------
(* Small sequence helpers *)

RECURSIVE SumSeq(_)
SumSeq(s) == IF s = <<>> THEN 0 ELSE Head(s) + SumSeq(Tail(s))

RECURSIVE FlattenSeq(_)
FlattenSeq(ss) == IF ss = <<>> THEN <<>> ELSE Head(ss) \o FlattenSeq(Tail(ss))

Max(a, b) == IF a >= b THEN a ELSE b
Min(a, b) == IF a <= b THEN a ELSE b

SeqsUpTo(S, n) == UNION {[1..m -> S] : m \in 0..n}

----------------------------------------------------------------------------
(* Helper functions, lines 56-84 *)

\* datetime.fromisoformat(...).date(): the calendar day, time of day dropped
parse_iso_date(d) == d.day

\* datetime.strptime(s, "%H:%M"): minutes since 1900-01-01 00:00
strptime(s) == 60 * s[1] + s[2]

\* datetime.strftime("%H:%M"): hour and minute of the datetime, day dropped
strftime(t) == <<(t \div 60) % 24, t % 60>>

minutes_between(start, end) == strptime(end) - strptime(start)

Whitespace == {" ", "\t", "\n"}

UpperToLower ==
    [c \in {"E", "A", "S", "Y", "M", "D", "I", "U", "H", "R"} |->
        CASE c = "E" -> "e" [] c = "A" -> "a" [] c = "S" -> "s"
          [] c = "Y" -> "y" [] c = "M" -> "m" [] c = "D" -> "d"
          [] c = "I" -> "i" [] c = "U" -> "u" [] c = "H" -> "h"
          [] c = "R" -> "r"]

\* str.lower()
lower(s) ==
    [j \in DOMAIN s |-> IF s[j] \in DOMAIN UpperToLower THEN UpperToLower[s[j]] ELSE s[j]]

\* str.strip(): leading and trailing whitespace removed
strip(s) ==
    LET inked == {j \in DOMAIN s : s[j] \notin Whitespace}
    IN  IF inked = {} THEN <<>>
        ELSE LET lo == CHOOSE j \in inked : \A k \in inked : j <= k
                 hi == CHOOSE j \in inked : \A k \in inked : j >= k
             IN  SubSeq(s, lo, hi)

difficultyWeightBroken(d) ==
    LET key == lower(d)
    IN  CASE key = <<"e", "a", "s", "y">> -> 1
          [] key = <<"m", "e", "d", "i", "u", "m">> -> 2
          [] key = <<"h", "a", "r", "d">> -> 3
          [] OTHER -> 1

difficulty_weight(d) ==
    LET key == strip(lower(d))
    IN  CASE key = <<"e", "a", "s", "y">> -> 1
          [] key = <<"m", "e", "d", "i", "u", "m">> -> 2
          [] key = <<"h", "a", "r", "d">> -> 3
          [] OTHER -> 2

priorityLabelStrict(days_until_due, diff) ==
    LET w == difficulty_weight(diff)
    IN  IF days_until_due < 1 THEN "high"
        ELSE IF days_until_due <= 3 /\ w >= 2 THEN "high"
        ELSE IF days_until_due <= 7 \/ w = 3 THEN "medium"
        ELSE "low"

priority_label(days_until_due, diff) ==
    LET w == difficulty_weight(diff)
    IN  IF days_until_due <= 1 THEN "high"
        ELSE IF days_until_due <= 3 /\ w >= 2 THEN "high"
        ELSE IF days_until_due <= 7 \/ w = 3 THEN "medium"
        ELSE "low"

----------------------------------------------------------------------------
(* Scoring and sorting, lines 140-154 *)

\* lines 142-151: the tuple appended to scored for assignment number n
ScoreOf(n) ==
    LET a == assignments[n]
        due == parse_iso_date(a.due_date)
        days_until == due - today
    IN  [score |-> << Max(days_until, -999),
                      -difficulty_weight(a.estimated_difficulty),
                      -a.estimated_hours >>,
         pr |-> priority_label(days_until, a.estimated_difficulty),
         due |-> due,
         a |-> a,
         id |-> n]

\* Python's ordering of tuples of three integers
TupleLess(x, y) ==
    \/ x[1] < y[1]
    \/ x[1] = y[1] /\ x[2] < y[2]
    \/ x[1] = y[1] /\ x[2] = y[2] /\ x[3] < y[3]

\* e put into the sorted sequence s behind every element that is not greater
InsertSorted(e, s) ==
    LET before == {j \in DOMAIN s : ~TupleLess(e.score, s[j].score)}
        p == Cardinality(before)
    IN  SubSeq(s, 1, p) \o <<e>> \o SubSeq(s, p + 1, Len(s))

RECURSIVE SortPrefix(_, _)
SortPrefix(s, n) == IF n = 0 THEN <<>> ELSE InsertSorted(s[n], SortPrefix(s, n - 1))

\* list.sort(key=lambda x: x[0]): ascending and stable
SortByScoreUnsorted(s) == s

SortByScore(s) == SortPrefix(s, Len(s))

----------------------------------------------------------------------------
(* Chunk expansion, lines 159-167 *)

ChunksOfSlotRoundedUp(slot) ==
    LET mins == minutes_between(slot.start_time, slot.end_time)
        hours == (mins + 59) \div 60
        start_t == strptime(slot.start_time)
    IN  [j \in 1..hours |->
            << slot.scheduled_date,
               strftime(start_t + 60 * (j - 1)),
               strftime(start_t + 60 * j) >>]

ChunksOfSlotAbs(slot) ==
    LET mins == minutes_between(slot.start_time, slot.end_time)
        hours == (IF mins < 0 THEN -mins ELSE mins) \div 60
        start_t == strptime(slot.start_time)
    IN  [j \in 1..hours |->
            << slot.scheduled_date,
               strftime(start_t + 60 * (j - 1)),
               strftime(start_t + 60 * j) >>]

ChunksOfSlot(slot) ==
    LET mins == minutes_between(slot.start_time, slot.end_time)
        hours == mins \div 60
        start_t == strptime(slot.start_time)
    IN  [j \in 1..hours |->
            << slot.scheduled_date,
               strftime(start_t + 60 * (j - 1)),
               strftime(start_t + 60 * j) >>]

----------------------------------------------------------------------------
(* The steps of generate_plan *)

\* lines 140-151, one iteration
ScoreStep ==
    /\ pc = "score"
    /\ cursor <= Len(assignments)
    /\ scored' = Append(scored, ScoreOf(cursor))
    /\ cursor' = cursor + 1
    /\ UNCHANGED <<today, assignments, calendar_availability, pc, chunks,
                   sessions, total_hours, hours_left, response>>

\* lines 154-157
SortStep ==
    /\ pc = "score"
    /\ cursor > Len(assignments)
    /\ scored' = SortByScore(scored)
    /\ chunks' = <<>>
    /\ cursor' = 1
    /\ pc' = "chunk"
    /\ UNCHANGED <<today, assignments, calendar_availability, sessions,
                   total_hours, hours_left, response>>

\* lines 159-167, one iteration of the outer loop (the inner loop included)
ChunkStep ==
    /\ pc = "chunk"
    /\ cursor <= Len(calendar_availability)
    /\ chunks' = chunks \o ChunksOfSlot(calendar_availability[cursor])
    /\ cursor' = cursor + 1
    /\ UNCHANGED <<today, assignments, calendar_availability, pc, scored,
                   sessions, total_hours, hours_left, response>>

\* lines 169-170
BeginAlloc ==
    /\ pc = "chunk"
    /\ cursor > Len(calendar_availability)
    /\ sessions' = <<>>
    /\ total_hours' = 0
    /\ cursor' = 0
    /\ hours_left' = 0
    /\ pc' = "for"
    /\ UNCHANGED <<today, assignments, calendar_availability, scored, chunks,
                   response>>

\* lines 173-174: the for loop takes its next element
NextAssignment ==
    /\ pc = "for"
    /\ cursor < Len(scored)
    /\ cursor' = cursor + 1
    /\ hours_left' = scored[cursor + 1].a.estimated_hours
    /\ pc' = "while"
    /\ UNCHANGED <<today, assignments, calendar_availability, scored, chunks,
                   sessions, total_hours, response>>

\* line 176: the condition of the while loop
WhileCondNoCap == chunks # <<>>

WhileCondOneShort == hours_left > 1 /\ chunks # <<>>

WhileCond == hours_left > 0 /\ chunks # <<>>

\* line 177: chunks.pop(0), the element taken and the list left behind
PopLast(cs) == [item |-> cs[Len(cs)], rest |-> SubSeq(cs, 1, Len(cs) - 1)]

PopKeep(cs) == [item |-> Head(cs), rest |-> cs]

Pop(cs) == [item |-> Head(cs), rest |-> Tail(cs)]

\* lines 176-191: one iteration of the while loop.  The id field of a session
\* records which object a of the for loop the session was built from.
AllocStep ==
    /\ pc = "while"
    /\ WhileCond
    /\ LET c == Pop(chunks).item
           e == scored[cursor]
       IN  sessions' = Append(sessions,
               [course_name |-> e.a.course_name,
                assignment_title |-> e.a.assignment_title,
                scheduled_date |-> c[1],
                start_time |-> c[2],
                end_time |-> c[3],
                priority_level |-> e.pr,
                id |-> e.id])
    /\ chunks' = Pop(chunks).rest
    /\ hours_left' = hours_left - 1
    /\ total_hours' = total_hours + 1
    /\ UNCHANGED <<today, assignments, calendar_availability, pc, cursor,
                   scored, response>>

\* line 176: the while condition is false
ExitWhile ==
    /\ pc = "while"
    /\ ~WhileCond
    /\ pc' = "for"
    /\ UNCHANGED <<today, assignments, calendar_availability, cursor, scored,
                   chunks, sessions, total_hours, hours_left, response>>

\* lines 193-209
Respond ==
    /\ pc = "for"
    /\ cursor >= Len(scored)
    /\ response' = [plan_title |-> "Weekly Smart Study Plan",
                    study_sessions |-> sessions,
                    total_scheduled_hours |-> total_hours]
    /\ pc' = "done"
    /\ UNCHANGED <<today, assignments, calendar_availability, cursor, scored,
                   chunks, sessions, total_hours, hours_left>>

Next ==
    \/ ScoreStep
    \/ SortStep
    \/ ChunkStep
    \/ BeginAlloc
    \/ NextAssignment
    \/ AllocStep
    \/ ExitWhile
    \/ Respond

----------------------------------------------------------------------------
(* Requests *)

NoResponse == [plan_title |-> "", study_sessions |-> <<>>, total_scheduled_hours |-> -1]

Today == 20000

Easy == <<"e", "a", "s", "y">>
Medium == <<"m", "e", "d", "i", "u", "m">>
Hard == <<"h", "a", "r", "d">>
HardPadded == <<" ", "H", "a", "r", "d", " ">>
EasyUpper == <<"E", "A", "S", "Y">>
Unknown == <<"?">>

Titles == <<"hw1", "hw2", "hw3", "hw4", "hw5">>

\* the assignments of a request: the n-th one is titled Titles[n]
Requests(fields, n) ==
    { [j \in DOMAIN f |->
          [course_name |-> "CS101",
           assignment_title |-> Titles[j],
           due_date |-> [day |-> Today + f[j].days, clock |-> f[j].clock],
           estimated_difficulty |-> f[j].diff,
           estimated_hours |-> f[j].hours]] : f \in SeqsUpTo(fields, n) }

Slots(dates, times) ==
    [scheduled_date : dates, start_time : times, end_time : times]

InitWith(asgs, slots) ==
    /\ today = Today
    /\ assignments \in asgs
    /\ calendar_availability \in slots
    /\ pc = "score"
    /\ cursor = 1
    /\ scored = <<>>
    /\ chunks = <<>>
    /\ sessions = <<>>
    /\ total_hours = 0
    /\ hours_left = 0
    /\ response = NoResponse

\* allocation: two due dates, several assignments, a block of two chunks and
\* a block of one chunk with a remainder
AllocFields ==
    [days : {2}, clock : {-1}, diff : {Hard}, hours : 0..MaxHours]
        \cup [days : {9}, clock : {-1}, diff : {Hard}, hours : {1, MaxHours}]

AllocSlots ==
    { [scheduled_date |-> "2026-11-02", start_time |-> <<18, 0>>, end_time |-> <<20, 0>>],
      [scheduled_date |-> "2026-11-03", start_time |-> <<17, 30>>, end_time |-> <<18, 50>>] }

Init == InitWith(Requests(AllocFields, MaxAssignments), SeqsUpTo(AllocSlots, MaxBlocks))

Spec == Init /\ [][Next]_vars

\* chunk expansion: every pair of times, negative and zero durations included
ChunkFields == [days : {2}, clock : {-1}, diff : {Hard}, hours : {1, 2}]

ChunkTimes == {<<17, 30>>, <<18, 0>>, <<18, 50>>, <<20, 0>>}

ChunkSlots == Slots({"2026-11-02"}, ChunkTimes)

InitChunk ==
    InitWith(Requests(ChunkFields, MaxChunkAssignments), SeqsUpTo(ChunkSlots, MaxChunkBlocks))

SpecChunk == InitChunk /\ [][Next]_vars

\* ordering: due dates on both sides of the clamp at -999 and of the label
\* thresholds, two difficulties, one or two blocks of two chunks
PrioFields ==
    [days : {-1001, -1000, -999, 2, 3}, clock : {-1}, diff : {Easy, Hard},
     hours : 1..MaxPrioHours]

PrioSlotLists ==
    LET b == [scheduled_date |-> "2026-11-02", start_time |-> <<18, 0>>, end_time |-> <<20, 0>>]
        c == [scheduled_date |-> "2026-11-03", start_time |-> <<18, 0>>, end_time |-> <<20, 0>>]
    IN  {<<b>>, <<b, c>>}

InitPrio == InitWith(Requests(PrioFields, MaxPrioAssignments), PrioSlotLists)

SpecPrio == InitPrio /\ [][Next]_vars

\* labels: every threshold of the rule, every spelling of the difficulty
LabelFields ==
    [days : {-1001, -1, 0, 1, 2, 3, 4, 7, 8, 30}, clock : {-1, 1439},
     diff : {Easy, Medium, Hard, HardPadded, EasyUpper, Unknown, <<>>},
     hours : {1}]

InitLabel == InitWith(Requests(LabelFields, MaxLabelAssignments), PrioSlotLists)

SpecLabel == InitLabel /\ [][Next]_vars

----------------------------------------------------------------------------
(* Vocabulary of the properties, stated without the operators of the model *)

Allocating == pc \in {"for", "while", "done"}

\* minutes of the day of an "HH:MM" pair
Clock(t) == 60 * t[1] + t[2]

Duration(b) == Clock(b.end_time) - Clock(b.start_time)

\* floor(duration_minutes / 60)
FloorHours(b) == Duration(b) \div 60

\* the chunks a block is expected to yield: [S + 60 i, S + 60 (i + 1)], i from 0
ExpectedChunks(b) ==
    [j \in 1..Max(0, FloorHours(b)) |->
        LET st == Clock(b.start_time) + 60 * (j - 1)
            en == Clock(b.start_time) + 60 * j
        IN  << b.scheduled_date, <<st \div 60, st % 60>>, <<en \div 60, en % 60>> >>]

\* the pool expected of the first n blocks: blocks in input order
ExpectedPoolOf(n) ==
    FlattenSeq([j \in 1..n |-> ExpectedChunks(calendar_availability[j])])

ExpectedPool == ExpectedPoolOf(Len(calendar_availability))

HoursRequested == SumSeq([j \in DOMAIN assignments |-> assignments[j].estimated_hours])

\* number of sessions built from assignment number n
SessionsOf(n) == Cardinality({k \in DOMAIN sessions : sessions[k].id = n})

SessionChunk(x) == <<x.scheduled_date, x.start_time, x.end_time>>

\* the weight of each difficulty string of the requests
ClaimWeight(d) ==
    CASE d \in {Easy, EasyUpper} -> 1
      [] d \in {Hard, HardPadded} -> 3
      [] OTHER -> 2

DaysUntilDue(n) == assignments[n].due_date.day - today

ClaimLabel(days, w) ==
    IF days <= 1 \/ (days <= 3 /\ w >= 2) THEN "high"
    ELSE IF days <= 7 \/ w = 3 THEN "medium"
    ELSE "low"

KeyLess(x, y) ==
    \/ x[1] < y[1]
    \/ x[1] = y[1] /\ x[2] < y[2]
    \/ x[1] = y[1] /\ x[2] = y[2] /\ x[3] < y[3]

\* the key (days_until_due, -weight, -estimated_hours)
ClaimKey(n) ==
    << DaysUntilDue(n),
       -ClaimWeight(assignments[n].estimated_difficulty),
       -assignments[n].estimated_hours >>

\* the key with days_until_due not below -999
ClampedKey(n) ==
    << Max(DaysUntilDue(n), -999),
       -ClaimWeight(assignments[n].estimated_difficulty),
       -assignments[n].estimated_hours >>

Rank(label) == CASE label = "high" -> 3 [] label = "medium" -> 2 [] OTHER -> 1

----------------------------------------------------------------------------
(* C1 *)

\* C1 as stated: when generate_plan finishes, total_scheduled_hours equals
\* min(C, H), C the sum over all blocks of floor(duration_minutes/60) and H
\* the sum of estimated_hours.
C1_ConservationFloorSum ==
    pc = "done" =>
        response.total_scheduled_hours =
            Min(SumSeq([j \in DOMAIN calendar_availability |->
                            FloorHours(calendar_availability[j])]),
                HoursRequested)

\* C1 amended: when generate_plan finishes, total_scheduled_hours equals
\* min(C, H), C the sum over all blocks of max(0, floor(duration_minutes/60))
\* (a block of negative duration counts for no chunk) and H the sum of
\* estimated_hours.
C1_Conservation ==
    pc = "done" =>
        response.total_scheduled_hours =
            Min(SumSeq([j \in DOMAIN calendar_availability |->
                            Max(0, FloorHours(calendar_availability[j]))]),
                HoursRequested)

\* a finished plan over a block of negative duration and a block with chunks,
\* where the pool and not the request is the cap
C1_Witness ==
    /\ pc = "done"
    /\ \E j \in DOMAIN calendar_availability : Duration(calendar_availability[j]) < 0
    /\ response.total_scheduled_hours > 0
    /\ response.total_scheduled_hours < HoursRequested

----------------------------------------------------------------------------
(* C2 *)

\* C2: the session list never contains two sessions with the same
\* (scheduled_date, start_time, end_time).
C2_NoDoubleBooking ==
    \A j, k \in DOMAIN sessions :
        j # k => SessionChunk(sessions[j]) # SessionChunk(sessions[k])

----------------------------------------------------------------------------
(* C3 *)

\* C3: at every step of the allocation pass and in the final plan, the number
\* of sessions built from an assignment is at most its estimated_hours.
C3_PerAssignmentCap ==
    Allocating =>
        /\ \A n \in DOMAIN assignments : SessionsOf(n) <= assignments[n].estimated_hours
        /\ pc = "done" =>
              \A n \in DOMAIN assignments :
                  Cardinality({k \in DOMAIN response.study_sessions :
                                  response.study_sessions[k].id = n})
                      <= assignments[n].estimated_hours

\* a finished plan where one assignment asked for no hour and got none, another
\* got all its hours, and chunks were left over
C3_Witness ==
    /\ pc = "done"
    /\ chunks # <<>>
    /\ \E n, m \in DOMAIN assignments :
          /\ assignments[n].estimated_hours = 0 /\ SessionsOf(n) = 0
          /\ assignments[m].estimated_hours > 1
          /\ SessionsOf(m) = assignments[m].estimated_hours

----------------------------------------------------------------------------
(* C4 *)

----------------------------------------------------------------------------
(* C5 *)

\* C5: after every iteration of the allocation loop and in the returned plan,
\* total_scheduled_hours = number of sessions = initial pool size minus
\* current pool size.
C5_CountInvariant ==
    /\ Allocating =>
          /\ total_hours = Len(sessions)
          /\ Len(sessions) = Len(ExpectedPool) - Len(chunks)
    /\ pc = "done" =>
          /\ response.total_scheduled_hours = Len(response.study_sessions)
          /\ response.total_scheduled_hours = Len(ExpectedPool) - Len(chunks)

\* the loop in the middle of an assignment, some chunks taken and some left
C5_Witness ==
    /\ pc = "while"
    /\ Len(sessions) >= 2
    /\ chunks # <<>>
    /\ hours_left > 0

----------------------------------------------------------------------------
(* C6 *)

\* C6: the label of an assignment is "high" if days_until_due <= 1 or
\* (days_until_due <= 3 and weight >= 2), otherwise "medium" if
\* days_until_due <= 7 or weight = 3, otherwise "low" (easy 1, medium 2,
\* hard 3, anything else 2), and every session carries the label of its
\* assignment.
C6_PriorityLabel ==
    /\ \A p \in DOMAIN scored :
          scored[p].pr =
              ClaimLabel(DaysUntilDue(scored[p].id),
                         ClaimWeight(assignments[scored[p].id].estimated_difficulty))
    /\ \A k \in DOMAIN sessions :
          sessions[k].priority_level =
              ClaimLabel(DaysUntilDue(sessions[k].id),
                         ClaimWeight(assignments[sessions[k].id].estimated_difficulty))

\* a session of an assignment due in 8 days whose difficulty is " Hard "
C6_Witness ==
    /\ pc = "done"
    /\ \E k \in DOMAIN sessions :
          /\ DaysUntilDue(sessions[k].id) = 8
          /\ assignments[sessions[k].id].estimated_difficulty = HardPadded
          /\ sessions[k].priority_level = "medium"

----------------------------------------------------------------------------
(* C7 *)

\* the position in the pool before the chunks of block number n
OffsetOf(n) ==
    SumSeq([j \in 1..(n - 1) |-> Max(0, FloorHours(calendar_availability[j]))])

\* C7: a block from S to E yields exactly max(0, floor((E - S)/60)) chunks, the
\* i-th (from 0) being [S + 60 i, S + 60 (i + 1)] on the block's date; every
\* chunk is 60 minutes long and lies inside [S, E].
C7_ChunkExpansion ==
    pc = "chunk" =>
        /\ chunks = ExpectedPoolOf(cursor - 1)
        /\ Len(chunks) = OffsetOf(cursor)
        /\ \A n \in 1..(cursor - 1) :
              LET b == calendar_availability[n]
              IN  \A i \in 1..Max(0, FloorHours(b)) :
                      LET c == chunks[OffsetOf(n) + i]
                      IN  /\ c[1] = b.scheduled_date
                          /\ Clock(c[2]) = Clock(b.start_time) + 60 * (i - 1)
                          /\ Clock(c[3]) - Clock(c[2]) = 60
                          /\ Clock(b.start_time) <= Clock(c[2])
                          /\ Clock(c[3]) <= Clock(b.end_time)

\* two blocks expanded: 17:30-20:00 gave two chunks and dropped 30 minutes,
\* a block of negative duration gave none
C7_Witness ==
    /\ pc = "chunk"
    /\ cursor = 3
    /\ Duration(calendar_availability[1]) = 150
    /\ Duration(calendar_availability[2]) < 0
    /\ Len(chunks) = 2

----------------------------------------------------------------------------
(* C8 *)

ServedHours(p) == scored[p].a.estimated_hours

ServedSessions(p) == SessionsOf(scored[p].id)

\* C8: in the final plan, in served order, at most one assignment has
\* 0 < sessions < estimated_hours; an assignment with a session is preceded
\* only by assignments with exactly their hours, an assignment short of its
\* hours is followed only by assignments with no session, and the pool is
\* then empty.
C8_GreedyPrefix ==
    pc = "done" =>
        /\ Cardinality({p \in DOMAIN scored :
                           0 < ServedSessions(p) /\ ServedSessions(p) < ServedHours(p)}) <= 1
        /\ \A p, q \in DOMAIN scored :
              p < q /\ ServedSessions(q) > 0 => ServedSessions(p) = ServedHours(p)
        /\ \A p, q \in DOMAIN scored :
              p < q /\ ServedSessions(p) < ServedHours(p) => ServedSessions(q) = 0
        /\ (\E p \in DOMAIN scored : ServedSessions(p) < ServedHours(p)) => chunks = <<>>

\* a finished plan of three assignments: the first served in full, the second
\* in part, the third not at all
C8_Witness ==
    /\ pc = "done"
    /\ Len(scored) = 3
    /\ ServedHours(1) > 0 /\ ServedSessions(1) = ServedHours(1)
    /\ 0 < ServedSessions(2) /\ ServedSessions(2) < ServedHours(2)
    /\ ServedHours(3) > 0 /\ ServedSessions(3) = 0

----------------------------------------------------------------------------
(* C9 *)

\* C9: the k-th session carries the k-th chunk of the initial pool (blocks in
\* input order, chunks of a block in time order), and the pool left is the
\* rest of the initial pool.
C9_Fifo ==
    Allocating =>
        /\ Len(sessions) <= Len(ExpectedPool)
        /\ \A k \in DOMAIN sessions : SessionChunk(sessions[k]) = ExpectedPool[k]
        /\ chunks = SubSeq(ExpectedPool, Len(sessions) + 1, Len(ExpectedPool))

\* a finished plan whose sessions belong to two assignments and span two
\* different blocks, with a chunk left over
C9_Witness ==
    /\ pc = "done"
    /\ Len(sessions) >= 2
    /\ chunks # <<>>
    /\ \E j, k \in DOMAIN sessions :
          /\ sessions[j].id # sessions[k].id
          /\ sessions[j].scheduled_date # sessions[k].scheduled_date

----------------------------------------------------------------------------
(* C10 *)

\* C10: no session with a lower priority_level comes before a session with a
\* higher priority_level (high > medium > low).
C10_HigherPriorityFirst ==
    \A j, k \in DOMAIN sessions :
        j < k => Rank(sessions[j].priority_level) >= Rank(sessions[k].priority_level)

====
